---- MODULE Spec2Model ----
(***************************************************************************)
(* Model of src/core/tree/stats.py: the TSNode / TS tree transformation,   *)
(* root-path and leaf-path extraction under quota sampling, the two tree   *)
(* serializations and the coverage statistics.                             *)
(*                                                                         *)
(* Strings.  Every Python string the code joins with '|' or splits on '|'  *)
(* is modelled as a non-empty sequence of tokens, the pieces between the   *)
(* '|' separators.  A token is a pair <<text, mark>>: text is the part     *)
(* before the '@' and mark is the position mark after the '@' (0 when the  *)
(* token carries no '@').  '|'.join(xs) is then the concatenation of the   *)
(* token sequences, s.split('|') is the list of one-token strings, and     *)
(* s.split('@')[0] cuts at the first marked token.                         *)
(***************************************************************************)
EXTENDS Integers, Sequences, FiniteSets, TLC

(***************************************************************************)
(* Bounds of the model.                                                    *)
(***************************************************************************)
MaxNodes == 4           \* every ordered tree with at most this many nodes
MaxSpine == 5           \* brooms: a chain of 1..MaxSpine non-terminals ...
MaxLeaves == 22         \* ... whose last node has 1..MaxLeaves terminals
MaxOver == 1            \* inputs exceed a sampling threshold by at most this
MaxSingle == 1          \* single-token terminals of a broom
MaxSide == 1            \* terminals of a broom that hang from its root
MaxRuns == 2            \* consecutive code2paths runs on the same code
RecursionLimit == 4     \* interpreter frames available to a recursive render
MaxPathLen == 3         \* merge_paths inputs: ancestor sequences up to this

(***************************************************************************)
(* Program constants.                                                      *)
(***************************************************************************)
threshold == 20
path_width_threshold == 2
path_length_threshold == 8
MarkLen == 8            \* '@' and four indices joined by three '~'

VARIABLES
    code,       \* the parsed code unit: the parser's tree (tree.root_node)
    pc,         \* "new" before TS(code) is constructed, "ready" after
    ts,         \* the TS object and its TSNode arena
    calls,      \* the methods called on ts so far, in order
    ret,        \* what the last method call on ts returned or raised
    runs,       \* the modes of the code2paths runs made so far
    paths,      \* what the last code2paths run returned
    prevPaths,  \* what the code2paths run before it returned
    u_path,     \* merge_paths: first argument
    v_path,     \* merge_paths: second argument
    merged      \* merge_paths: what it returned

vars == <<code, pc, ts, calls, ret, runs, paths, prevPaths, u_path, v_path, merged>>

None == 0

(***************************************************************************)
(* Sequence helpers.                                                       *)
(***************************************************************************)
RECURSIVE Reversed(_)
Reversed(s) == IF s = <<>> THEN <<>> ELSE Append(Reversed(Tail(s)), Head(s))

RECURSIVE Flatten(_)
Flatten(ss) == IF ss = <<>> THEN <<>> ELSE Head(ss) \o Flatten(Tail(ss))

Range(s) == {s[i] : i \in 1..Len(s)}

Min(a, b) == IF a < b THEN a ELSE b

Max(a, b) == IF a < b THEN b ELSE a

Abs(a) == IF a < 0 THEN 0 - a ELSE a

(***************************************************************************)
(* Strings as token sequences.                                             *)
(***************************************************************************)
Str(text) == << <<text, None>> >>

\* value + mark: the mark is appended to the end of the string
AddMark(s, m) == [s EXCEPT ![Len(s)] = <<s[Len(s)][1], m>>]

\* '|'.join(xs); the join of no strings is the empty string
Join(xs) == IF xs = <<>> THEN Str("") ELSE Flatten(xs)

\* s.split('|')
Split(s) == [i \in 1..Len(s) |-> <<s[i]>>]

\* len(s), in characters
RECURSIVE StrLen(_)
StrLen(s) ==
    IF s = <<>> THEN 0
    ELSE Len(Head(s)[1]) + (IF Head(s)[2] = None THEN 0 ELSE MarkLen)
         + (IF Len(s) > 1 THEN 1 + StrLen(Tail(s)) ELSE 0)

(***************************************************************************)
(* The parser's tree.  Node 1 is tree.root_node; par[n] is the parent of   *)
(* node n and the children of a node are ordered by their number.  type[n] *)
(* is the node kind and value[n] the token text after the external         *)
(* normalisation (desensitize for non-terminals, tokenize and formalize    *)
(* for terminals), as a sequence of '|'-separated pieces.  The position    *)
(* (start_point, end_point) of node n is coded by n itself.                *)
(***************************************************************************)
NodesOf(tree) == 1..Len(tree.par)

RhsChildren(tree, n) ==
    LET RECURSIVE Kids(_)
        Kids(i) == IF i > Len(tree.par) THEN <<>>
                   ELSE (IF tree.par[i] = n THEN <<i>> ELSE <<>>) \o Kids(i + 1)
    IN Kids(1)

IsLeaf(tree, n) == \A i \in NodesOf(tree) : tree.par[i] # n

TermLabels ==
    { [type |-> "identifier", value |-> <<"a">>],
      [type |-> "identifier", value |-> <<"a", "b">>],
      [type |-> "string", value |-> <<"c">>] }

NontermLabels ==
    { [type |-> "module", value |-> <<"m">>],
      [type |-> "expression_statement", value |-> <<"e">>] }

MkTree(p, lab) ==
    [par |-> p,
     type |-> [i \in 1..Len(p) |-> lab[i].type],
     value |-> [i \in 1..Len(p) |-> lab[i].value]]

ParentArrays(n) ==
    {p \in [1..n -> 0..(n - 1)] :
        /\ p[1] = 0
        /\ \A i \in 2..n : p[i] \in 1..(i - 1)}

SmallTrees ==
    UNION { UNION { { MkTree(p, lab) :
                        lab \in {l \in [1..n -> TermLabels \cup NontermLabels] :
                                    \A i \in 1..n :
                                        l[i] \in TermLabels <=> (\A j \in 1..n : p[j] # i)} }
                    : p \in ParentArrays(n) }
            : n \in 1..MaxNodes }

\* a chain of d non-terminals, the last with w identifier terminals of which
\* the last ns have a single-token value, and side more identifier terminals
\* directly below the root
Broom(d, w, ns, side) ==
    [par |-> [i \in 1..(d + w + side) |->
                 IF i <= d THEN i - 1 ELSE IF i <= d + w THEN d ELSE 1],
     type |-> [i \in 1..(d + w + side) |-> IF i <= d THEN "module" ELSE "identifier"],
     value |-> [i \in 1..(d + w + side) |->
                   IF i <= d THEN <<"m">>
                   ELSE IF i > d + w - ns /\ i <= d + w THEN <<"a">> ELSE <<"a", "b">>]]

BroomTrees ==
    { Broom(c[1], c[2], c[3], c[4]) :
        c \in { x \in (1..MaxSpine) \X (1..MaxLeaves) \X (0..MaxSingle) \X (0..MaxSide) :
                    x[3] <= x[2] } }

(***************************************************************************)
(* TSNode.__init__ and TS.traverse.  The TSNode built for parser node n is *)
(* arena entry n; the fields of every node are functions of the arena.     *)
(***************************************************************************)
TreeStyles == {"AST", "SPT", "HST", "HPT"}

PathStyles == {"L2L", "UD", "U2D"}

\* TSNode(): every field of a fresh node
TSNode(N) ==
    [type |-> [n \in N |-> ""],
     value |-> [n \in N |-> <<>>],
     mark |-> [n \in N |-> None],
     guardian |-> [n \in N |-> None],
     left_child |-> [n \in N |-> None],
     right_sibling |-> [n \in N |-> None],
     parent |-> [n \in N |-> None],
     children |-> [n \in N |-> <<>>]]

\* LinkChild with the sibling link left out: the previous child never learns
\* of its right sibling
LinkChildNoSibling(nd, lhs, lhs_child, left_sibling) ==
    LET lcrs == IF left_sibling # None
                THEN [nd EXCEPT !.guardian[lhs_child] = left_sibling]
                ELSE [nd EXCEPT !.guardian[lhs_child] = lhs,
                                !.left_child[lhs] = lhs_child]
    IN [lcrs EXCEPT !.parent[lhs_child] = lhs,
                    !.children[lhs] = Append(@, lhs_child)]

\* the body of "for rhs_child in rhs.children" for the i-th child, with
\* left_sibling the node made for the child before it
LinkChild(nd, lhs, lhs_child, left_sibling) ==
    LET lcrs == IF left_sibling # None
                THEN [nd EXCEPT !.guardian[lhs_child] = left_sibling,
                                !.right_sibling[left_sibling] = lhs_child]
                ELSE [nd EXCEPT !.guardian[lhs_child] = lhs,
                                !.left_child[lhs] = lhs_child]
    IN [lcrs EXCEPT !.parent[lhs_child] = lhs,
                    !.children[lhs] = Append(@, lhs_child)]

\* "for rhs_child in rhs.children"; w = [nd, kids, left_sibling]
RECURSIVE LinkChildren(_, _)
LinkChildren(w, lhs) ==
    IF w.kids = <<>> THEN w.nd
    ELSE LinkChildren([nd |-> LinkChild(w.nd, lhs, Head(w.kids), w.left_sibling),
                       kids |-> Tail(w.kids),
                       left_sibling |-> Head(w.kids)], lhs)

\* lhs.value once normalised: the pieces of the token text, none marked yet
query_token(tree, n) == [i \in 1..Len(tree.value[n]) |-> <<tree.value[n][i], None>>]

\* one iteration of "while not q.empty()"; st = [q, nd, terminals, eldest_counter]
TraverseStep(tree, st) ==
    LET lhs == Head(st.q)
        kids == RhsChildren(tree, lhs)
        set == [st.nd EXCEPT !.type[lhs] = tree.type[lhs],
                             !.value[lhs] = query_token(tree, lhs),
                             !.mark[lhs] = lhs]
    IN IF kids # <<>>
       THEN [q |-> Tail(st.q) \o kids,
             nd |-> LinkChildren([nd |-> set, kids |-> kids, left_sibling |-> None], lhs),
             terminals |-> st.terminals,
             eldest_counter |-> st.eldest_counter + 1]
       ELSE [q |-> Tail(st.q),
             nd |-> set,
             terminals |-> Append(st.terminals, lhs),
             eldest_counter |-> st.eldest_counter]

RECURSIVE TraverseLoop(_, _)
TraverseLoop(tree, st) ==
    IF st.q = <<>> THEN st ELSE TraverseLoop(tree, TraverseStep(tree, st))

traverse(tree) ==
    TraverseLoop(tree, [q |-> <<1>>, nd |-> TSNode(NodesOf(tree)),
                        terminals |-> <<>>, eldest_counter |-> 0])

\* TS.__init__
NewTS(tree, tree_style, path_style) ==
    LET t == traverse(tree)
    IN [tree_style |-> tree_style,
        path_style |-> path_style,
        root |-> 1,
        nd |-> t.nd,
        terminals |-> t.terminals,
        num_eldest |-> t.eldest_counter,
        terminal_nodes |-> <<>>,
        nonterminal_nodes |-> <<>>,
        leafpath_terminal_nodes |-> <<>>,
        leafpath_nonterminal_nodes |-> <<>>,
        rootpath_terminal_nodes |-> <<>>,
        rootpath_nonterminal_nodes |-> <<>>]

NoTS == [tree_style |-> "", path_style |-> ""]

NoRet == [op |-> ""]

(***************************************************************************)
(* TSNode.gen_root_path                                                    *)
(***************************************************************************)
\* the label appended for ancestor ptr of terminal self
AncestorLabel(nd, self, ptr, tree_style) ==
    IF tree_style \in {"AST", "HST"}
    THEN AddMark(Str(nd.type[ptr]), nd.mark[self])
    ELSE AddMark(nd.value[ptr], nd.mark[self])

\* "while ptr.parent": returns <<root_path, hpt_ptr>>, root_path leaf-first
RECURSIVE ClimbToRoot(_, _, _, _, _, _)
ClimbToRoot(nd, self, ptr, tree_style, root_path, hpt_ptr) ==
    IF nd.parent[ptr] = None THEN <<root_path, hpt_ptr>>
    ELSE LET up == nd.parent[ptr]
             cut == /\ tree_style \in {"HST", "HPT"}
                    /\ hpt_ptr = None
                    /\ nd.type[up] = "expression_statement"
         IN ClimbToRoot(nd, self, up, tree_style,
                        IF cut THEN <<>>
                        ELSE Append(root_path, AncestorLabel(nd, self, up, tree_style)),
                        IF cut THEN up ELSE hpt_ptr)

\* the breadth-first walk below hpt_ptr that collects the identifier pieces
RECURSIVE StatementValues(_, _)
StatementValues(nd, q) ==
    IF q = <<>> THEN <<>>
    ELSE LET ptr == Head(q)
         IN (IF nd.type[ptr] = "identifier" THEN Split(nd.value[ptr]) ELSE <<>>)
            \o StatementValues(nd, Tail(q) \o nd.children[ptr])

\* gen_root_path that never replaces the terminal's own value
gen_root_path_own_value(nd, self, tree_style) ==
    LET up == ClimbToRoot(nd, self, self, tree_style, <<>>, None)
    IN [path |-> Reversed(up[1]), value |-> AddMark(nd.value[self], nd.mark[self])]

\* returns [path, value]
gen_root_path(nd, self, tree_style) ==
    LET up == ClimbToRoot(nd, self, self, tree_style, <<>>, None)
        value == IF up[2] # None
                 THEN Join(StatementValues(nd, <<up[2]>>))
                 ELSE nd.value[self]
    IN [path |-> Reversed(up[1]), value |-> AddMark(value, nd.mark[self])]

(***************************************************************************)
(* random.sample(population, k): k elements of distinct positions.  Every  *)
(* choice of the positions is enumerated; of the orders in which the       *)
(* chosen elements can come back, the population's order and its reverse.  *)
(***************************************************************************)
RECURSIVE Drops(_, _)
Drops(n, r) ==
    IF r = 0 THEN {{}}
    ELSE IF n < r THEN {}
    ELSE Drops(n - 1, r) \cup {D \cup {n} : D \in Drops(n - 1, r - 1)}

RECURSIVE Keep(_, _, _)
Keep(population, D, i) ==
    IF i > Len(population) THEN <<>>
    ELSE (IF i \in D THEN <<>> ELSE <<population[i]>>) \o Keep(population, D, i + 1)

Sample(population, k) ==
    UNION { {Keep(population, D, 1), Reversed(Keep(population, D, 1))} :
                D \in Drops(Len(population), Len(population) - k) }

(***************************************************************************)
(* TS.gen_root_paths                                                       *)
(***************************************************************************)
\* LongValue counting the '|'-separated tokens of the value, not its characters
LongValueTokens(value) == Len(Split(value)) > 1

\* len(value) > 1, the test that sorts values into the buckets
LongValue(value) == StrLen(value) > 1

\* the loop over self.terminals; acc = [ts, root_paths_1, root_paths_0, todo],
\* todo the terminals still to visit
RECURSIVE RootPathLoop(_)
RootPathLoop(acc) ==
    IF acc.todo = <<>> THEN acc
    ELSE LET terminal == Head(acc.todo)
             rp == gen_root_path(acc.ts.nd, terminal, acc.ts.tree_style)
             entry == [path |-> rp.path, value |-> rp.value, t |-> terminal]
             seen == [acc.ts EXCEPT !.terminal_nodes = Append(@, rp.value),
                                    !.nonterminal_nodes = @ \o rp.path]
             candidate == /\ acc.ts.nd.type[terminal] = "identifier"
                          /\ rp.path # <<>>
                          /\ StrLen(rp.value) > 0
         IN RootPathLoop(
                [ts |-> seen,
                 root_paths_1 |-> IF candidate /\ LongValue(rp.value)
                                  THEN Append(acc.root_paths_1, entry)
                                  ELSE acc.root_paths_1,
                 root_paths_0 |-> IF candidate /\ ~LongValue(rp.value)
                                  THEN Append(acc.root_paths_0, entry)
                                  ELSE acc.root_paths_0,
                 todo |-> Tail(acc.todo)])

\* the selections the sampling step can make
SelectRootPaths(root_paths_1, root_paths_0) ==
    LET margin == threshold - Len(root_paths_1)
    IN IF margin < 0 THEN Sample(root_paths_1, threshold)
       ELSE IF margin > 0
       THEN {root_paths_1 \o extra :
                extra \in Sample(root_paths_0, Min(margin, Len(root_paths_0)))}
       ELSE {root_paths_1}

\* the final loop that fills the root-path accumulators
RecordRootPaths(t, root_paths) ==
    [t EXCEPT !.rootpath_terminal_nodes =
                  @ \o [i \in 1..Len(root_paths) |-> root_paths[i].value],
              !.rootpath_nonterminal_nodes =
                  @ \o Flatten([i \in 1..Len(root_paths) |-> root_paths[i].path])]

\* every outcome [ts, root_paths] of self.gen_root_paths()
gen_root_paths(t) ==
    LET acc == RootPathLoop([ts |-> t, root_paths_1 |-> <<>>, root_paths_0 |-> <<>>,
                             todo |-> t.terminals])
    IN { [ts |-> RecordRootPaths(acc.ts, root_paths), root_paths |-> root_paths] :
            root_paths \in SelectRootPaths(acc.root_paths_1, acc.root_paths_0) }

(***************************************************************************)
(* TS.merge_paths                                                          *)
(***************************************************************************)
\* "while s < min(m, n) and u_path[s] == v_path[s]: s += 1", from s
RECURSIVE CommonLen(_, _, _)
CommonLen(u, v, s) ==
    IF s < Min(Len(u), Len(v)) /\ u[s + 1] = v[s + 1]
    THEN CommonLen(u, v, s + 1)
    ELSE s

\* LcaAt taking the first element of the path, the root, as the lca
LcaAtRoot(u, s) == u[1]

\* u_path[s - 1]: Python counts a negative index from the end of the list
LcaAt(u, s) == IF s >= 1 THEN u[s] ELSE u[Len(u)]

\* [prefix, lca, suffix], or IndexError when u_path[s - 1] does not exist
merge_paths(u, v) ==
    LET s == CommonLen(u, v, 0)
    IN IF u = <<>> THEN [raised |-> "IndexError"]
       ELSE [prefix |-> Reversed(SubSeq(u, s + 1, Len(u))),
             lca |-> LcaAt(u, s),
             suffix |-> SubSeq(v, s + 1, Len(v))]

(***************************************************************************)
(* TS.gen_leaf_paths                                                       *)
(***************************************************************************)
RECURSIVE Repeat(_, _)
Repeat(x, n) == IF n <= 0 THEN <<>> ELSE <<x>> \o Repeat(x, n - 1)

RECURSIVE Interleave(_, _)
Interleave(xs, sep) ==
    IF Len(xs) <= 1 THEN xs ELSE <<Head(xs), sep>> \o Interleave(Tail(xs), sep)

\* the middle of a leaf path in the three path styles
Middle(path_style, prefix, lca, suffix) ==
    IF path_style = "L2L" THEN Join(prefix \o <<lca>> \o suffix)
    ELSE IF path_style = "UD"
    THEN Join(Repeat(Str("U"), Len(prefix)) \o Repeat(Str("D"), Len(suffix)))
    ELSE Join(Interleave(prefix, Str("U"))) \o Str("U") \o lca \o Str("D")
         \o Join(Interleave(suffix, Str("D")))

\* Qualifies without the width rule
QualifiesNoWidth(prefix_len, suffix_len) ==
    /\ 1 <= prefix_len
    /\ 1 <= suffix_len
    /\ prefix_len + 1 + suffix_len <= path_length_threshold

\* the width and length rules of a pair
Qualifies(prefix_len, suffix_len) ==
    /\ 1 <= prefix_len
    /\ 1 <= suffix_len
    /\ Abs(prefix_len - suffix_len) <= path_width_threshold
    /\ prefix_len + 1 + suffix_len <= path_length_threshold

\* the body of "for (u_path, u_value), (v_path, v_value) in cases";
\* b holds leaf_paths_2, leaf_paths_1 and leaf_paths_0
LeafPairStep(path_style, b, u, v) ==
    LET m == merge_paths(u.path, v.path)
        prefix_len == Len(m.prefix)
        suffix_len == Len(m.suffix)
        skip == IF threshold <= Len(b.leaf_paths_2)
                THEN ~LongValue(u.value) \/ ~LongValue(v.value)
                ELSE IF threshold <= Len(b.leaf_paths_2) + Len(b.leaf_paths_1)
                THEN ~LongValue(u.value) /\ ~LongValue(v.value)
                ELSE FALSE
        leaf_path == [str |-> u.value \o Middle(path_style, m.prefix, m.lca, m.suffix)
                              \o v.value,
                      u |-> u.t, v |-> v.t,
                      prefix_len |-> prefix_len, suffix_len |-> suffix_len]
    IN IF skip \/ ~Qualifies(prefix_len, suffix_len) THEN b
       ELSE IF LongValue(u.value) \/ LongValue(v.value)
       THEN IF LongValue(u.value) /\ LongValue(v.value)
            THEN [b EXCEPT !.leaf_paths_2 = Append(@, leaf_path)]
            ELSE [b EXCEPT !.leaf_paths_1 = Append(@, leaf_path)]
       ELSE [b EXCEPT !.leaf_paths_0 = Append(@, leaf_path)]

\* the loop over cases = combinations(root_paths, 2): the pairs of positions
\* (i, j), i < j, in lexicographic order; b also carries the position (i, j)
RECURSIVE LeafPairRow(_, _, _)
LeafPairRow(path_style, b, root_paths) ==
    IF b.j > Len(root_paths) THEN b
    ELSE LeafPairRow(path_style,
                     [LeafPairStep(path_style, b, root_paths[b.i], root_paths[b.j])
                         EXCEPT !.j = b.j + 1],
                     root_paths)

RECURSIVE LeafPairLoop(_, _, _)
LeafPairLoop(path_style, b, root_paths) ==
    IF b.i >= Len(root_paths) THEN b
    ELSE LeafPairLoop(path_style,
                      [LeafPairRow(path_style, [b EXCEPT !.j = b.i + 1], root_paths)
                          EXCEPT !.i = b.i + 1],
                      root_paths)

\* the selections the sampling step can make
SelectLeafPaths(b) ==
    LET margin == threshold - Len(b.leaf_paths_2)
    IN IF margin < 0 THEN Sample(b.leaf_paths_2, threshold)
       ELSE IF margin > 0
       THEN UNION { LET some == b.leaf_paths_2 \o one
                        rest == threshold - Len(some)
                    IN IF rest > 0
                       THEN {some \o zero :
                                zero \in Sample(b.leaf_paths_0,
                                                Min(rest, Len(b.leaf_paths_0)))}
                       ELSE {some}
                    : one \in Sample(b.leaf_paths_1, Min(margin, Len(b.leaf_paths_1))) }
       ELSE {b.leaf_paths_2}

\* "source, *middle, target = leaf_path.split('|')" for every selected path
RecordLeafPaths(t, leaf_paths) ==
    LET pieces == [k \in 1..Len(leaf_paths) |-> Split(leaf_paths[k].str)]
    IN [t EXCEPT !.leafpath_terminal_nodes =
                     @ \o Flatten([k \in 1..Len(leaf_paths) |->
                                      <<pieces[k][1], pieces[k][Len(pieces[k])]>>]),
                 !.leafpath_nonterminal_nodes =
                     @ \o Flatten([k \in 1..Len(leaf_paths) |->
                                      SubSeq(pieces[k], 2, Len(pieces[k]) - 1)])]

\* every outcome [ts, root_paths, leaf_paths] of self.gen_leaf_paths()
gen_leaf_paths(t) ==
    UNION { LET b == LeafPairLoop(t.path_style,
                                  [leaf_paths_2 |-> <<>>, leaf_paths_1 |-> <<>>,
                                   leaf_paths_0 |-> <<>>, i |-> 1, j |-> 2],
                                  r.root_paths)
            IN { [ts |-> RecordLeafPaths(r.ts, leaf_paths),
                  root_paths |-> r.root_paths,
                  leaf_paths |-> leaf_paths] : leaf_paths \in SelectLeafPaths(b) }
            : r \in gen_root_paths(t) }

(***************************************************************************)
(* TS.stats and TS.clean_mark.  A ratio is the pair <<numerator,           *)
(* denominator>> of the division that computes it.                         *)
(***************************************************************************)
\* node.split('@')[0]
RECURSIVE CleanOne(_)
CleanOne(node) ==
    IF node = <<>> THEN <<>>
    ELSE IF Head(node)[2] # None THEN << <<Head(node)[1], None>> >>
    ELSE <<Head(node)>> \o CleanOne(Tail(node))

\* list(set(self.clean_mark(nodes))) of a deduplicated list
clean_mark(nodes) == {CleanOne(node) : node \in nodes}

\* list(set(nodes)): the distinct members in no particular order, kept as the
\* set they form
Dedup(nodes) == Range(nodes)

DedupAll(t) ==
    [t EXCEPT !.terminal_nodes = Dedup(@),
              !.nonterminal_nodes = Dedup(@),
              !.rootpath_terminal_nodes = Dedup(@),
              !.rootpath_nonterminal_nodes = Dedup(@),
              !.leafpath_terminal_nodes = Dedup(@),
              !.leafpath_nonterminal_nodes = Dedup(@)]

CleanAll(t) ==
    [t EXCEPT !.terminal_nodes = clean_mark(@),
              !.nonterminal_nodes = clean_mark(@),
              !.rootpath_terminal_nodes = clean_mark(@),
              !.rootpath_nonterminal_nodes = clean_mark(@),
              !.leafpath_terminal_nodes = clean_mark(@),
              !.leafpath_nonterminal_nodes = clean_mark(@)]

\* the numerator of a link coverage: path nodes less one
LinkCount(num_path_terminal_nodes, num_path_nonterminal_nodes) ==
    num_path_terminal_nodes + num_path_nonterminal_nodes - 1

\* [ts, ret] of self.stats()
stats(t) ==
    LET d == DedupAll(t)
        link_den == Cardinality(d.terminal_nodes) + Cardinality(d.nonterminal_nodes) - 1
        c == CleanAll(d)
        node_den == Cardinality(c.terminal_nodes) + Cardinality(c.nonterminal_nodes)
    IN IF link_den = 0
       THEN [ts |-> d, ret |-> [op |-> "stats", raised |-> "ZeroDivisionError"]]
       ELSE IF node_den = 0
       THEN [ts |-> c, ret |-> [op |-> "stats", raised |-> "ZeroDivisionError"]]
       ELSE [ts |-> c,
             ret |-> [op |-> "stats", raised |-> "",
                      link_coverage_rootpath |->
                          <<LinkCount(Cardinality(d.rootpath_terminal_nodes),
                                      Cardinality(d.rootpath_nonterminal_nodes)), link_den>>,
                      link_coverage_leafpath |->
                          <<LinkCount(Cardinality(d.leafpath_terminal_nodes),
                                      Cardinality(d.leafpath_nonterminal_nodes)), link_den>>,
                      link_coverage_lcrs |-> <<t.num_eldest, link_den>>,
                      node_coverage_rootpath |->
                          <<Cardinality(c.rootpath_terminal_nodes)
                            + Cardinality(c.rootpath_nonterminal_nodes), node_den>>,
                      node_coverage_leafpath |->
                          <<Cardinality(c.leafpath_terminal_nodes)
                            + Cardinality(c.leafpath_nonterminal_nodes), node_den>>]]

(***************************************************************************)
(* TSNode.gen_sbt, TSNode.gen_lcrs and the two representations.  A         *)
(* rendering is kept as the list re.split('[(|)]', ...) and filter(None,   *)
(* ...) make of it: the non-empty pieces of the values, in order.          *)
(***************************************************************************)
RECURSIVE Pieces(_)
Pieces(value) ==
    IF value = <<>> THEN <<>>
    ELSE (IF Head(value)[1] = "" THEN <<>> ELSE <<Head(value)[1]>>) \o Pieces(Tail(value))

RECURSIVE gen_sbt(_, _)
gen_sbt(nd, n) ==
    Pieces(nd.value[n])
    \o Flatten([i \in 1..Len(nd.children[n]) |-> gen_sbt(nd, nd.children[n][i])])
    \o Pieces(nd.value[n])

RECURSIVE gen_lcrs(_, _)
gen_lcrs(nd, n) ==
    (IF nd.left_child[n] # None THEN gen_lcrs(nd, nd.left_child[n]) ELSE <<>>)
    \o Pieces(nd.value[n])
    \o (IF nd.right_sibling[n] # None THEN gen_lcrs(nd, nd.right_sibling[n]) ELSE <<>>)

RECURSIVE MaxOf(_)
MaxOf(xs) == IF xs = <<>> THEN 0 ELSE Max(Head(xs), MaxOf(Tail(xs)))

\* the frames gen_sbt stacks below node n: its own, the generator expression
\* it joins, and the deepest child's
RECURSIVE SbtFrames(_, _)
SbtFrames(nd, n) ==
    2 + MaxOf([i \in 1..Len(nd.children[n]) |-> SbtFrames(nd, nd.children[n][i])])

\* the frames gen_lcrs stacks below node n
RECURSIVE LcrsFrames(_, _)
LcrsFrames(nd, n) ==
    1 + Max(IF nd.left_child[n] # None THEN LcrsFrames(nd, nd.left_child[n]) ELSE 0,
            IF nd.right_sibling[n] # None THEN LcrsFrames(nd, nd.right_sibling[n]) ELSE 0)

gen_sbt_representation(t) ==
    IF SbtFrames(t.nd, t.root) > RecursionLimit
    THEN [op |-> "gen_sbt_representation", raised |-> "RecursionError", tokens |-> <<>>]
    ELSE [op |-> "gen_sbt_representation", raised |-> "", tokens |-> gen_sbt(t.nd, t.root)]

gen_lcrs_representation(t) ==
    IF LcrsFrames(t.nd, t.root) > RecursionLimit
    THEN [gen_sbt_representation(t) EXCEPT !.op = "gen_lcrs_representation"]
    ELSE [op |-> "gen_lcrs_representation", raised |-> "", tokens |-> gen_lcrs(t.nd, t.root)]

(***************************************************************************)
(* code2paths                                                              *)
(***************************************************************************)
Modes == {"rootpath", "leafpath"}

RootPathTokens(root_paths) ==
    Flatten([i \in 1..Len(root_paths) |->
                root_paths[i].path \o Split(root_paths[i].value)])

LeafPathTokens(leaf_paths) ==
    Flatten([i \in 1..Len(leaf_paths) |-> Split(leaf_paths[i].str)])

\* every list code2paths(code, language, mode) can return
code2paths(tree, mode) ==
    LET t == NewTS(tree, "SPT", "L2L")
    IN IF mode = "rootpath"
       THEN {RootPathTokens(r.root_paths) : r \in gen_root_paths(t)}
       ELSE {LeafPathTokens(r.leaf_paths) : r \in gen_leaf_paths(t)}

(***************************************************************************)
(* The code units of the model: the small trees and the brooms in which    *)
(* the candidates of gen_root_paths and the qualifying pairs of            *)
(* gen_leaf_paths exceed the sampling threshold by at most MaxOver.        *)
(***************************************************************************)
\* the identifier candidates TS(code) finds, in terminal order
Candidates(tree) ==
    LET t == NewTS(tree, "SPT", "L2L")
        acc == RootPathLoop([ts |-> t, root_paths_1 |-> <<>>, root_paths_0 |-> <<>>,
                             todo |-> t.terminals])
    IN acc.root_paths_1 \o acc.root_paths_0

\* the pairs of candidates that pass the width and length rules
QualifyingPairs(tree) ==
    LET c == Candidates(tree)
    IN { p \in (1..Len(c)) \X (1..Len(c)) :
            /\ p[1] < p[2]
            /\ LET m == merge_paths(c[p[1]].path, c[p[2]].path)
               IN Qualifies(Len(m.prefix), Len(m.suffix)) }

InputTrees ==
    SmallTrees \cup
    { tree \in BroomTrees :
        /\ Len(Candidates(tree)) <= threshold + MaxOver
        /\ Cardinality(QualifyingPairs(tree)) <= threshold + MaxOver }

(***************************************************************************)
(* The state machine.  One code unit is handed either to run_stats, which  *)
(* builds a TS and calls its methods, or to doc2tokens, which runs         *)
(* code2paths on it (each run builds a TS of its own).                     *)
(***************************************************************************)
NoCode == [par |-> <<>>, type |-> <<>>, value |-> <<>>]

Init ==
    /\ code \in InputTrees
    /\ pc = "new"
    /\ ts = NoTS
    /\ calls = <<>>
    /\ ret = NoRet
    /\ runs = <<>>
    /\ paths = <<>>
    /\ prevPaths = <<>>
    /\ u_path = <<>>
    /\ v_path = <<>>
    /\ merged = NoRet

\* ts = TS(code, language, tree_style, path_style)
TSInit(tree_style, path_style) ==
    /\ pc = "new"
    /\ runs = <<>>
    /\ pc' = "ready"
    /\ ts' = NewTS(code, tree_style, path_style)
    /\ UNCHANGED <<code, calls, ret, runs, paths, prevPaths, u_path, v_path, merged>>

\* ts.gen_root_paths()
GenRootPaths ==
    /\ pc = "ready"
    /\ calls = <<>>
    /\ \E r \in gen_root_paths(ts) :
          /\ ts' = r.ts
          /\ ret' = [op |-> "gen_root_paths", root_paths |-> r.root_paths]
    /\ calls' = Append(calls, "gen_root_paths")
    /\ UNCHANGED <<code, pc, runs, paths, prevPaths, u_path, v_path, merged>>

\* ts.gen_leaf_paths()
GenLeafPaths ==
    /\ pc = "ready"
    /\ calls = <<>>
    /\ \E r \in gen_leaf_paths(ts) :
          /\ ts' = r.ts
          /\ ret' = [op |-> "gen_leaf_paths", root_paths |-> r.root_paths,
                     leaf_paths |-> r.leaf_paths]
    /\ calls' = Append(calls, "gen_leaf_paths")
    /\ UNCHANGED <<code, pc, runs, paths, prevPaths, u_path, v_path, merged>>

\* ts.stats()
Stats ==
    /\ pc = "ready"
    /\ calls \in {<<>>, <<"gen_root_paths">>, <<"gen_leaf_paths">>}
    /\ LET r == stats(ts)
       IN /\ ts' = r.ts
          /\ ret' = r.ret
    /\ calls' = Append(calls, "stats")
    /\ UNCHANGED <<code, pc, runs, paths, prevPaths, u_path, v_path, merged>>

\* ts.gen_sbt_representation()
GenSbtRepresentation ==
    /\ pc = "ready"
    /\ calls = <<>>
    /\ ret' = gen_sbt_representation(ts)
    /\ calls' = Append(calls, "gen_sbt_representation")
    /\ UNCHANGED <<code, pc, ts, runs, paths, prevPaths, u_path, v_path, merged>>

\* ts.gen_lcrs_representation()
GenLcrsRepresentation ==
    /\ pc = "ready"
    /\ calls = <<>>
    /\ ret' = gen_lcrs_representation(ts)
    /\ calls' = Append(calls, "gen_lcrs_representation")
    /\ UNCHANGED <<code, pc, ts, runs, paths, prevPaths, u_path, v_path, merged>>

\* paths = code2paths(code, language, mode)
Code2Paths(mode) ==
    /\ pc = "new"
    /\ Len(runs) < MaxRuns
    /\ paths' \in code2paths(code, mode)
    /\ prevPaths' = paths
    /\ runs' = Append(runs, mode)
    /\ UNCHANGED <<code, pc, ts, calls, ret, u_path, v_path, merged>>

Next ==
    \/ \E tree_style \in TreeStyles, path_style \in PathStyles :
          TSInit(tree_style, path_style)
    \/ GenRootPaths
    \/ GenLeafPaths
    \/ Stats
    \/ GenSbtRepresentation
    \/ GenLcrsRepresentation
    \/ \E mode \in Modes : Code2Paths(mode)

Spec == Init /\ [][Next]_vars

(***************************************************************************)
(* merge_paths on its own: any two ancestor sequences over a small         *)
(* alphabet of labels.                                                     *)
(***************************************************************************)
PathLabels == {"a", "b", "c", "d"}

PathsUpTo(n) == UNION { [1..k -> PathLabels] : k \in 0..n }

InitMerge ==
    /\ code = NoCode
    /\ pc = "merge"
    /\ ts = NoTS
    /\ calls = <<>>
    /\ ret = NoRet
    /\ runs = <<>>
    /\ paths = <<>>
    /\ prevPaths = <<>>
    /\ u_path \in PathsUpTo(MaxPathLen)
    /\ v_path \in PathsUpTo(MaxPathLen)
    /\ merged = NoRet

\* merged = TS.merge_paths(u_path, v_path)
MergePaths ==
    /\ pc = "merge"
    /\ merged = NoRet
    /\ merged' = merge_paths(u_path, v_path)
    /\ UNCHANGED <<code, pc, ts, calls, ret, runs, paths, prevPaths, u_path, v_path>>

NextMerge == MergePaths

SpecMerge == InitMerge /\ [][NextMerge]_vars

(***************************************************************************)
(* Properties.                                                             *)
(***************************************************************************)
Built == pc = "ready"

Leaves(tree) == {n \in NodesOf(tree) : IsLeaf(tree, n)}

\* the ancestors of node n in the parser's tree, nearest first
RECURSIVE AncestorsOf(_, _)
AncestorsOf(tree, n) ==
    IF tree.par[n] = 0 THEN <<>> ELSE <<tree.par[n]>> \o AncestorsOf(tree, tree.par[n])

DepthOf(tree, n) == Len(AncestorsOf(tree, n))

\* C10: after the breadth-first build, every non-terminal n with ordered
\* children c1..ck is the parent of each ci, has c1 as left_child and as the
\* node it guards, every later child is guarded by the child before it, which
\* has it as right_sibling, and ck has no right_sibling; the terminal list
\* holds exactly the leaves, once each, and none of them has children or a
\* left_child.
C10_TraverseLinks ==
    Built =>
        /\ \A n \in NodesOf(code) :
              LET c == RhsChildren(code, n)
                  k == Len(c)
              IN k >= 1 =>
                    /\ ts.nd.children[n] = c
                    /\ \A i \in 1..k : ts.nd.parent[c[i]] = n
                    /\ ts.nd.left_child[n] = c[1]
                    /\ ts.nd.guardian[c[1]] = n
                    /\ \A i \in 2..k :
                          /\ ts.nd.guardian[c[i]] = c[i - 1]
                          /\ ts.nd.right_sibling[c[i - 1]] = c[i]
                    /\ ts.nd.right_sibling[c[k]] = None
        /\ Range(ts.terminals) = Leaves(code)
        /\ Len(ts.terminals) = Cardinality(Leaves(code))
        /\ \A i \in 1..Len(ts.terminals) :
              /\ ts.nd.children[ts.terminals[i]] = <<>>
              /\ ts.nd.left_child[ts.terminals[i]] = None

\* a built tree with a non-terminal of three children below the root
C10_Witness ==
    /\ Built
    /\ \E n \in NodesOf(code) :
          /\ Len(ts.nd.children[n]) >= 3
          /\ ts.nd.right_sibling[ts.nd.children[n][2]] = ts.nd.children[n][3]
    /\ \E n \in NodesOf(code) : ts.nd.parent[n] # None /\ ts.nd.left_child[n] # None

\* the longest common prefix of u and v, said without the loop: the first s
\* elements agree and the next, if both sequences have one, differ
IsCommonPrefixLen(u, v, s) ==
    /\ s \in 0..Min(Len(u), Len(v))
    /\ \A i \in 1..s : u[i] = v[i]
    /\ s < Min(Len(u), Len(v)) => u[s + 1] # v[s + 1]

\* C5: for two ancestor sequences that start with the same element,
\* merge_paths returns, with s the length of their longest common prefix,
\* prefix = u[s:] reversed, lca = the last element of the common prefix and
\* suffix = v[s:]; [a,b,c] and [a,b,d] give prefix [c], lca b, suffix [d].
C5_MergePaths ==
    (/\ merged # NoRet
     /\ u_path # <<>>
     /\ v_path # <<>>
     /\ u_path[1] = v_path[1]) =>
        /\ \E s \in 1..Len(u_path) :
              /\ IsCommonPrefixLen(u_path, v_path, s)
              /\ merged.prefix = [i \in 1..(Len(u_path) - s) |-> u_path[Len(u_path) + 1 - i]]
              /\ merged.lca = u_path[s]
              /\ merged.suffix = [i \in 1..(Len(v_path) - s) |-> v_path[s + i]]
        /\ (u_path = <<"a", "b", "c">> /\ v_path = <<"a", "b", "d">>) =>
              merged = [prefix |-> <<"c">>, lca |-> "b", suffix |-> <<"d">>]

\* merge_paths has run on [a,b,c] and [a,b,d]
C5_Witness ==
    /\ merged # NoRet
    /\ u_path = <<"a", "b", "c">>
    /\ v_path = <<"a", "b", "d">>
    /\ merged.lca = "b"

\* every node but the root is a terminal directly below the root
AllTerminalsAtDepthOne(tree) ==
    /\ Len(tree.par) >= 2
    /\ \A n \in 2..Len(tree.par) : tree.par[n] = 1

KeepsWholeChain == ts.tree_style \in {"AST", "SPT"}

\* C1: in a tree whose terminals are all direct children of the root,
\* gen_root_path gives every terminal an ancestor sequence of length 1, and
\* gen_leaf_paths finds an empty prefix and an empty suffix for any two
\* identifier terminals and returns no leaf path.
C1_FlatTreeNoLeafPaths ==
    (/\ calls = <<"gen_leaf_paths">>
     /\ KeepsWholeChain
     /\ AllTerminalsAtDepthOne(code)) =>
        /\ \A i \in 1..Len(ts.terminals) :
              Len(gen_root_path(ts.nd, ts.terminals[i], ts.tree_style).path) = 1
        /\ \A i, j \in 1..Len(ret.root_paths) :
              i < j =>
                 LET m == merge_paths(ret.root_paths[i].path, ret.root_paths[j].path)
                 IN m.prefix = <<>> /\ m.suffix = <<>>
        /\ ret.leaf_paths = <<>>

\* a ratio lies in [0, 1]
InUnit(r) == r[2] > 0 /\ 0 <= r[1] /\ r[1] <= r[2]

\* a ratio is not negative
NonNegative(r) == (r[2] > 0 /\ r[1] >= 0) \/ (r[2] < 0 /\ r[1] <= 0)

\* stats() has returned its five ratios after gen_leaf_paths(), on a TS built
\* with the default styles, as run_stats builds it
StatsReturned ==
    /\ calls = <<"gen_leaf_paths", "stats">>
    /\ ret.raised = ""
    /\ ts.tree_style = "SPT"
    /\ ts.path_style = "L2L"

\* C2: after gen_leaf_paths() and stats(), node_coverage_rootpath and
\* node_coverage_leafpath both lie in [0, 1].
C2_NodeCoverageInUnit ==
    StatsReturned =>
        /\ InUnit(ret.node_coverage_rootpath)
        /\ InUnit(ret.node_coverage_leafpath)

\* C3: when the LC-RS rendering exceeds the recursion limit,
\* gen_lcrs_representation raises nothing and returns the token list of the
\* structure-based serialization of the same tree.
C3_LcrsFallsBack ==
    (/\ calls = <<"gen_lcrs_representation">>
     /\ LcrsFrames(ts.nd, ts.root) > RecursionLimit) =>
        /\ ret.raised = ""
        /\ ret.tokens = gen_sbt(ts.nd, ts.root)

\* C6: when stats() returns after gen_leaf_paths() on a tree of at least two
\* nodes, none of the five coverage ratios is negative.
C6_RatiosNonNegative ==
    (StatsReturned /\ Len(code.par) >= 2) =>
        /\ NonNegative(ret.link_coverage_rootpath)
        /\ NonNegative(ret.link_coverage_leafpath)
        /\ NonNegative(ret.link_coverage_lcrs)
        /\ NonNegative(ret.node_coverage_rootpath)
        /\ NonNegative(ret.node_coverage_leafpath)

\* the ancestors two nodes of the parser's tree share
SharedAncestors(tree, a, b) ==
    Range(AncestorsOf(tree, a)) \cap Range(AncestorsOf(tree, b))

\* the deepest of them
DeepestCommonAncestor(tree, a, b) ==
    CHOOSE n \in SharedAncestors(tree, a, b) :
        \A o \in SharedAncestors(tree, a, b) : DepthOf(tree, o) <= DepthOf(tree, n)

\* the label of a node in the tree style of ts, without a mark
NodeLabel(n) == IF ts.tree_style = "AST" THEN Str(ts.nd.type[n]) ELSE ts.nd.value[n]

\* C7: for every two distinct terminals selected by gen_root_paths (tree
\* style AST or SPT), the common prefix gen_leaf_paths computes covers
\* exactly the ancestors the two share: prefix and suffix hold only the
\* ancestors that are not shared and lca is the label of the deepest common
\* ancestor.
C7_LcaIsDeepestCommonAncestor ==
    (calls = <<"gen_leaf_paths">> /\ KeepsWholeChain) =>
        \A i, j \in 1..Len(ret.root_paths) :
            i < j =>
               LET u == ret.root_paths[i]
                   v == ret.root_paths[j]
                   m == merge_paths(u.path, v.path)
                   k == Cardinality(SharedAncestors(code, u.t, v.t))
               IN /\ CommonLen(u.path, v.path, 0) = k
                  /\ Len(m.prefix) = Len(u.path) - k
                  /\ Len(m.suffix) = Len(v.path) - k
                  /\ CleanOne(m.lca) = NodeLabel(DeepestCommonAncestor(code, u.t, v.t))

\* the identifier candidates of ts whose anchor value splits into several tokens
MultiTokenCandidates ==
    { n \in Range(ts.terminals) :
        /\ ts.nd.type[n] = "identifier"
        /\ LET rp == gen_root_path(ts.nd, n, ts.tree_style)
           IN rp.path # <<>> /\ Len(Split(rp.value)) > 1 }

\* C8: gen_root_paths returns at most 20 root paths, each of a distinct
\* identifier terminal, and a candidate whose anchor value is a single token
\* is returned only when fewer than 20 candidates have a multi-token value.
C8_MultiTokenPriority ==
    calls = <<"gen_root_paths">> =>
        /\ Len(ret.root_paths) <= 20
        /\ \A i, j \in 1..Len(ret.root_paths) :
              i # j => ret.root_paths[i].t # ret.root_paths[j].t
        /\ \A i \in 1..Len(ret.root_paths) :
              /\ ts.nd.type[ret.root_paths[i].t] = "identifier"
              /\ Len(Split(ret.root_paths[i].value)) = 1 =>
                    Cardinality(MultiTokenCandidates) < 20

\* no sampling can be triggered: fewer than 20 candidates and qualifying pairs
UnderThreshold ==
    /\ Len(Candidates(code)) < 20
    /\ Cardinality(QualifyingPairs(code)) < 20

\* C4: for a tree with fewer than 20 identifier candidates and fewer than
\* 20 qualifying leaf-path pairs, two runs of code2paths in the same mode
\* return the identical token sequence.
C4_RunsAgree ==
    (/\ Len(runs) = 2
     /\ runs[1] = runs[2]
     /\ UnderThreshold) =>
        paths = prevPaths

\* two leaf-path runs over several candidates of both kinds of value
C4_Witness ==
    /\ runs = <<"leafpath", "leafpath">>
    /\ UnderThreshold
    /\ paths # <<>>
    /\ paths = prevPaths
    /\ \E i, j \in 1..Len(Candidates(code)) :
          /\ Len(Candidates(code)[i].value) = 1
          /\ Len(Candidates(code)[j].value) > 1

\* C9: gen_leaf_paths returns at most 20 leaf paths; each was built from a
\* pair of distinct sampled root paths whose prefix and suffix are both
\* non-empty, differ in length by at most 2 and with the lca make at most 8
\* elements; no pair contributes more than one returned path.
C9_LeafPathsQualify ==
    calls = <<"gen_leaf_paths">> =>
        LET rp == ret.root_paths
            lp == ret.leaf_paths
        IN /\ Len(lp) <= 20
           /\ \A k \in 1..Len(lp) :
                 \E i \in 1..Len(rp) :
                    /\ rp[i].t = lp[k].u
                    /\ \E j \in 1..Len(rp) :
                          /\ rp[j].t = lp[k].v
                          /\ i # j
                          /\ LET m == merge_paths(rp[i].path, rp[j].path)
                             IN /\ m.prefix # <<>>
                                /\ m.suffix # <<>>
                                /\ Abs(Len(m.prefix) - Len(m.suffix)) <= 2
                                /\ Len(m.prefix) + 1 + Len(m.suffix) <= 8
                                /\ lp[k].str =
                                      rp[i].value
                                      \o Middle(ts.path_style, m.prefix, m.lca, m.suffix)
                                      \o rp[j].value
           /\ \A k, l \in 1..Len(lp) :
                 k # l => {lp[k].u, lp[k].v} # {lp[l].u, lp[l].v}

\* twenty leaf paths were returned although the sampled root paths form
\* more than twenty pairs
C9_Witness ==
    /\ calls = <<"gen_leaf_paths">>
    /\ Len(ret.leaf_paths) = 20
    /\ Len(ret.root_paths) * (Len(ret.root_paths) - 1) > 40

\* how far up terminal n its nearest ancestor of type expression_statement
\* is (1 = the parent); 0 when it has none
NearestStatement(tree, n) ==
    LET anc == AncestorsOf(tree, n)
        S == {i \in 1..Len(anc) : tree.type[anc[i]] = "expression_statement"}
    IN IF S = {} THEN 0 ELSE CHOOSE i \in S : \A j \in S : i <= j

\* the ancestors of n strictly above that statement, root first; all of them
\* when there is no such statement
KeptAncestors(tree, n) ==
    LET anc == AncestorsOf(tree, n)
    IN Reversed(SubSeq(anc, NearestStatement(tree, n) + 1, Len(anc)))

\* the nodes at and below the nodes of level, level by level, each level
\* from left to right
RECURSIVE LevelOrder(_, _)
LevelOrder(tree, level) ==
    IF level = <<>> THEN <<>>
    ELSE level \o LevelOrder(tree,
                      Flatten([i \in 1..Len(level) |-> RhsChildren(tree, level[i])]))

\* the sub-tokens of the identifier nodes of the subtree of s, breadth first
StatementTokens(tree, s) ==
    LET order == LevelOrder(tree, <<s>>)
    IN Flatten([i \in 1..Len(order) |->
                   IF tree.type[order[i]] = "identifier"
                   THEN Split(ts.nd.value[order[i]])
                   ELSE <<>>])

\* the label of a node in the hierarchy tree style of ts, without a mark
HierarchyLabel(n) == IF ts.tree_style = "HST" THEN Str(ts.nd.type[n]) ELSE ts.nd.value[n]

HierarchyStyle == ts.tree_style \in {"HST", "HPT"}

\* C11: under tree style HST or HPT gen_root_path gives a terminal below an
\* expression_statement the labels of the ancestors strictly above the
\* nearest such statement, root first, and as value the '|'-joined
\* sub-tokens of the identifier nodes of that statement's subtree in
\* breadth-first order; a terminal below no such statement keeps its full
\* ancestor chain and its own value.
C11_HierarchyRootPath ==
    (calls = <<"gen_root_paths">> /\ HierarchyStyle) =>
        /\ \A i \in 1..Len(ts.terminals) :
              LET n == ts.terminals[i]
                  rp == gen_root_path(ts.nd, n, ts.tree_style)
                  k == NearestStatement(code, n)
                  kept == KeptAncestors(code, n)
              IN /\ ts.terminal_nodes[i] = rp.value
                 /\ Len(rp.path) = Len(kept)
                 /\ \A j \in 1..Len(kept) :
                       CleanOne(rp.path[j]) = HierarchyLabel(kept[j])
                 /\ CleanOne(rp.value) =
                       IF k = 0 THEN ts.nd.value[n]
                       ELSE Join(StatementTokens(code, AncestorsOf(code, n)[k]))
        /\ \A i \in 1..Len(ret.root_paths) :
              LET r == ret.root_paths[i]
                  rp == gen_root_path(ts.nd, r.t, ts.tree_style)
              IN r.path = rp.path /\ r.value = rp.value

\* a root path was returned for a terminal below a statement that has
\* ancestors of its own, with a value that is not the terminal's own
C11_Witness ==
    /\ calls = <<"gen_root_paths">>
    /\ HierarchyStyle
    /\ \E i \in 1..Len(ret.root_paths) :
          LET n == ret.root_paths[i].t
          IN /\ NearestStatement(code, n) > 0
             /\ ret.root_paths[i].path # <<>>
             /\ CleanOne(ret.root_paths[i].value) # ts.nd.value[n]

====
